---- MODULE Spec2Model ----
(***************************************************************************)
(* Model of lib/env/render/TradingChart.py: the TradingChart renderer      *)
(* (three matplotlib panes over a sliding window of a price frame) and the *)
(* part of pyplot's global figure registry that its constructor and its    *)
(* close() act on.                                                         *)
(*                                                                         *)
(* Numbers.  Money amounts (net worths, benchmark values) are integers in  *)
(* thousandths of a dollar, so that rounding to two decimals is visible;   *)
(* closes and highs likewise.  Products and quotients by the               *)
(* decimal literals of the code (0.33, 1.25) are kept as exact fractions   *)
(* <<numerator, denominator>> with a positive denominator.                 *)
(* Python sequences are 0-based; the model's are 1-based, element i of the *)
(* code is element i+1 here.                                               *)
(***************************************************************************)
EXTENDS Integers, Sequences, FiniteSets, TLC

VARIABLES figs, chart, last

vars == <<figs, chart, last>>

(***************************************************************************)
(* Bounds of the model.                                                    *)
(***************************************************************************)
MaxStep == 2          \* the price frame has rows 0..MaxStep
MaxWindow == 2        \* window_size ranges over 0..MaxWindow
MaxBench == 10        \* up to MaxBench benchmarks per render call
MaxTrades == 2        \* up to MaxTrades trades per render call
MaxExtra == 1         \* net_worths has up to MaxExtra entries after current_step
MaxRenderers == 2     \* renderers constructed in the several-renderer runs

Main == 1
Renderers == 1..MaxRenderers

(***************************************************************************)
(* Arithmetic helpers.                                                     *)
(***************************************************************************)
Max(a, b) == IF a >= b THEN a ELSE b

Min(a, b) == IF a <= b THEN a ELSE b

Range(s) == {s[i] : i \in 1..Len(s)}

\* Python's builtin max()/min() of a non-empty sequence.
SeqMax(s) == CHOOSE x \in Range(s) : \A y \in Range(s) : y <= x

SeqMin(s) == CHOOSE x \in Range(s) : \A y \in Range(s) : x <= y

\* a / b rounded to the nearest integer, an exact tie going to the even
\* neighbour, as Python's round() does.
RoundDiv(a, b) ==
  LET n == IF b < 0 THEN -a ELSE a
      d == IF b < 0 THEN -b ELSE b
      q == n \div d
      r == n - q * d
  IN IF 2 * r < d THEN q
     ELSE IF 2 * r > d THEN q + 1
     ELSE IF q % 2 = 0 THEN q ELSE q + 1

\* round(x, 2) of an amount in thousandths: the nearest whole cent, still
\* expressed in thousandths.
Round2(x) == 10 * RoundDiv(x, 10)

\* '{0:.2f}'.format(x) of an amount in thousandths: the number of cents the
\* two-decimal text shows.
Format2f(x) == RoundDiv(x, 10)

FracSub(a, b) == <<a[1] * b[2] - b[1] * a[2], a[2] * b[2]>>

FracMul(a, b) == <<a[1] * b[1], a[2] * b[2]>>

FracDiv(a, b) == <<a[1] * b[2], a[2] * b[1]>>

FracLeq(a, b) == a[1] * b[2] <= b[1] * a[2]

FracEq(a, b) == a[1] * b[2] = b[1] * a[2]

\* VOLUME_CHART_HEIGHT = 0.33
VOLUME_CHART_HEIGHT == <<33, 100>>

\* stands for sys.maxsize, the length of range(sys.maxsize)
maxsize == 2147483647

(***************************************************************************)
(* Python slicing.  A slice is <<start, stop>>; seq[slice] clamps both     *)
(* ends to the length and counts a negative end from the back.             *)
(***************************************************************************)
SliceIndex(i, n) == IF i < 0 THEN Max(i + n, 0) ELSE Min(i, n)

PySlice(s, sl) ==
  LET a == SliceIndex(sl[1], Len(s))
      b == SliceIndex(sl[2], Len(s))
  IN [i \in 1..Max(b - a, 0) |-> s[a + i]]

\* step in range(sys.maxsize)[sl]
InRangeSlice(step, sl) ==
  /\ SliceIndex(sl[1], maxsize) <= step
  /\ step < SliceIndex(sl[2], maxsize)

(***************************************************************************)
(* The price frame handed to the constructor: rows 0..MaxStep with         *)
(* increasing dates (seconds), closes and highs (thousandths) that go up   *)
(* and down, and positive volumes.                                         *)
(***************************************************************************)
NRows == MaxStep + 1

df ==
  [Date   |-> [i \in 1..NRows |-> 86400 + 3600 * (i - 1)],
   Close  |-> [i \in 1..NRows |-> 100000 + 10000 * (((i - 1) * 7) % 5)],
   High   |-> [i \in 1..NRows |-> 105004 + 10000 * (((i - 1) * 7) % 5)],
   Volume |-> [i \in 1..NRows |-> 10 + 10 * (((i - 1) * 3 + 1) % 4)]]

(***************************************************************************)
(* matplotlib axes, as far as the renderer uses them.  An axes holds the   *)
(* artists drawn on it and its y view limits; while autoscale is on, the   *)
(* y limits follow the plotted data (margins are left out).                *)
(***************************************************************************)
NewAxes ==
  [lines |-> <<>>, texts |-> <<>>, fills |-> <<>>, legend |-> <<>>,
   ylim |-> << <<0, 1>>, <<1, 1>> >>, autoscale |-> TRUE,
   yticks |-> "auto", xticklabels |-> <<>>]

\* A clear() that resets the view but leaves the annotations in place.
AxClearKeepsTexts(ax) == [NewAxes EXCEPT !.texts = ax.texts]

\* Axes.clear(): drops every artist and resets the view and autoscaling.
AxClear(ax) == NewAxes

AxPlot(ax, x, y, label, color, alpha) ==
  [ax EXCEPT !.lines =
     Append(@, [x |-> x, y |-> y, label |-> label, color |-> color, alpha |-> alpha])]

AxAnnotate(ax, text, xy, xytext, arrow) ==
  [ax EXCEPT !.texts =
     Append(@, [text |-> text, xy |-> xy, xytext |-> xytext, arrow |-> arrow])]

AxFillBetween(ax, x, y, color, alpha) ==
  [ax EXCEPT !.fills = Append(@, [x |-> x, y |-> y, color |-> color, alpha |-> alpha])]

AxSetYlim(ax, bottom, top) == [ax EXCEPT !.ylim = <<bottom, top>>, !.autoscale = FALSE]

DataYs(ax) == UNION {Range(ax.lines[i].y) : i \in 1..Len(ax.lines)}

AxGetYlim(ax) ==
  IF ax.autoscale /\ DataYs(ax) # {}
  THEN << <<CHOOSE x \in DataYs(ax) : \A y \in DataYs(ax) : x <= y, 1>>,
          <<CHOOSE x \in DataYs(ax) : \A y \in DataYs(ax) : y <= x, 1>> >>
  ELSE ax.ylim

AxLegend(ax) == [ax EXCEPT !.legend = [i \in 1..Len(ax.lines) |-> ax.lines[i].label]]

\* Axis.set_ticks([]) on the y axis
AxHideYTicks(ax) == [ax EXCEPT !.yticks = "hidden"]

AxSetXTickLabels(ax, labels) == [ax EXCEPT !.xticklabels = labels]

(***************************************************************************)
(* TradingChart.__init__: a figure with the three panes, nothing drawn.    *)
(***************************************************************************)
NewChart ==
  [title |-> <<>>, net_worth_ax |-> NewAxes, price_ax |-> NewAxes, volume_ax |-> NewAxes]

(***************************************************************************)
(* TradingChart._render_benchmarks                                         *)
(***************************************************************************)
colors == <<"orange", "cyan", "purple", "blue", "magenta", "yellow", "black", "red", "green">>

\* A palette lookup that forgets the last colour when wrapping around.
BenchmarkColorShort(i) == colors[(i % (Len(colors) - 1)) + 1]

\* colors[i % len(colors)], i the 0-based position of the benchmark
BenchmarkColor(i) == colors[(i % Len(colors)) + 1]

RECURSIVE RenderBenchmarksFrom(_, _, _, _, _)
RenderBenchmarksFrom(ax, step_range, times, benchmarks, i) ==
  IF i >= Len(benchmarks) THEN ax
  ELSE RenderBenchmarksFrom(
         AxPlot(ax, times, PySlice(benchmarks[i + 1].values, step_range),
                benchmarks[i + 1].label, BenchmarkColor(i), 30),
         step_range, times, benchmarks, i + 1)

RenderBenchmarks(ax, step_range, times, benchmarks) ==
  RenderBenchmarksFrom(ax, step_range, times, benchmarks, 0)

(***************************************************************************)
(* TradingChart._render_net_worth                                          *)
(***************************************************************************)
OneAndAQuarter == <<5, 4>>

NetWorthYlim(net_worths) ==
  << FracDiv(<<SeqMin(net_worths), 1>>, OneAndAQuarter),
     FracMul(<<SeqMax(net_worths), 1>>, OneAndAQuarter) >>

RenderNetWorth(ax, step_range, times, current_step, net_worths, benchmarks) ==
  LET cleared == AxClear(ax)
      plotted == AxPlot(cleared, times, PySlice(net_worths, step_range), <<"Net Worth">>, "g", 100)
      benched == RenderBenchmarks(plotted, step_range, times, benchmarks)
      legended == AxLegend(benched)
      last_time == df.Date[current_step + 1]
      last_net_worth == net_worths[current_step + 1]
      annotated == AxAnnotate(legended, <<"2f", Format2f(last_net_worth)>>,
                              <<last_time, last_net_worth>>, <<last_time, last_net_worth>>, "none")
      ylim == NetWorthYlim(net_worths)
  IN AxSetYlim(annotated, ylim[1], ylim[2])

(***************************************************************************)
(* TradingChart._render_price                                              *)
(***************************************************************************)
RenderPrice(ax, step_range, times, current_step) ==
  LET cleared == AxClear(ax)
      plotted == AxPlot(cleared, times, PySlice(df.Close, step_range), <<>>, "black", 100)
      last_time == df.Date[current_step + 1]
      last_close == df.Close[current_step + 1]
      last_high == df.High[current_step + 1]
      annotated == AxAnnotate(plotted, <<"2f", Format2f(last_close)>>,
                              <<last_time, last_close>>, <<last_time, last_high>>, "none")
      ylim == AxGetYlim(annotated)
  IN AxSetYlim(annotated,
               FracSub(ylim[1], FracMul(FracSub(ylim[2], ylim[1]), VOLUME_CHART_HEIGHT)),
               ylim[2])

(***************************************************************************)
(* TradingChart._render_volume                                             *)
(***************************************************************************)
\* A scaling that takes the maximum over the whole frame.
VolumeSeriesWholeFrame(step_range) == df.Volume

\* np.array(self.df['Volume'].values[step_range])
VolumeSeries(step_range) == PySlice(df.Volume, step_range)

RenderVolume(ax, step_range, times) ==
  LET cleared == AxClear(ax)
      volume == VolumeSeries(step_range)
      plotted == AxPlot(cleared, times, volume, <<>>, "blue", 100)
      filled == AxFillBetween(plotted, times, volume, "blue", 50)
      scaled == AxSetYlim(filled, <<0, 1>>,
                          FracDiv(<<SeqMax(volume), 1>>, VOLUME_CHART_HEIGHT))
  IN AxHideYTicks(scaled)

(***************************************************************************)
(* TradingChart._render_trades                                             *)
(***************************************************************************)
\* An arrow colouring with the two colours exchanged.
TradeColorSwapped(type) == IF type = "buy" THEN "r" ELSE "g"

TradeColor(type) == IF type = "buy" THEN "g" ELSE "r"

RECURSIVE RenderTradesFrom(_, _, _, _)
RenderTradesFrom(ax, step_range, trades, k) ==
  IF k > Len(trades) THEN ax
  ELSE LET trade == trades[k] IN
       IF InRangeSlice(trade.step, step_range)
       THEN LET date == df.Date[trade.step + 1]
                close == df.Close[trade.step + 1]
            IN RenderTradesFrom(
                 AxAnnotate(ax, <<" ">>, <<date, close>>, <<date, close>>, TradeColor(trade.type)),
                 step_range, trades, k + 1)
       ELSE RenderTradesFrom(ax, step_range, trades, k + 1)

RenderTrades(ax, step_range, trades) == RenderTradesFrom(ax, step_range, trades, 1)

(***************************************************************************)
(* TradingChart.render                                                     *)
(***************************************************************************)
\* A window start one step too early.
WindowStartOffByOne(current_step, window_size) == Max(current_step - window_size - 1, 0)

\* window_start = max(current_step - window_size, 0)
WindowStart(current_step, window_size) == Max(current_step - window_size, 0)

\* net_worth = round(net_worths[-1], 2)
TitleNetWorth(net_worths) == Round2(net_worths[Len(net_worths)])

\* initial_net_worth = round(net_worths[0], 2)
InitialNetWorth(net_worths) == Round2(net_worths[1])

\* round((net_worth - initial_net_worth) / initial_net_worth * 100, 2), in
\* hundredths of a percent
ProfitPercent(net_worth, initial_net_worth) ==
  RoundDiv((net_worth - initial_net_worth) * 10000, initial_net_worth)

\* A render that clears the net-worth pane before it computes the title.
ChartAfterRaiseCleared(c) == [c EXCEPT !.net_worth_ax = AxClear(@)]

\* The chart a call leaves behind when lines 127-129 raise: they run before
\* the first call that draws, so the chart is as it was.
ChartAfterRaise(c) == c

\* The exception lines 127-129 raise, before anything is drawn: an
\* IndexError for net_worths[-1] of an empty series, a ZeroDivisionError
\* when the rounded initial net worth is zero.
Raised(net_worths) ==
  IF Len(net_worths) = 0 THEN "IndexError"
  ELSE IF InitialNetWorth(net_worths) = 0 THEN "ZeroDivisionError"
  ELSE "none"

\* pd.to_datetime(date, unit='s').strftime('%m/%d/%Y %H:%M'): the date to
\* the minute
DateLabel(date) == <<"%m/%d/%Y %H:%M", date \div 60>>

RenderChart(c, a) ==
  LET net_worth == TitleNetWorth(a.net_worths)
      initial_net_worth == InitialNetWorth(a.net_worths)
      profit_percent == ProfitPercent(net_worth, initial_net_worth)
      title == <<"Net worth: $", net_worth, " | Profit: ", profit_percent, "%">>
      window_start == WindowStart(a.current_step, a.window_size)
      step_range == <<window_start, a.current_step + 1>>
      times == PySlice(df.Date, step_range)
      nwax == RenderNetWorth(c.net_worth_ax, step_range, times, a.current_step,
                             a.net_worths, a.benchmarks)
      pax == RenderPrice(c.price_ax, step_range, times, a.current_step)
      vax == RenderVolume(c.volume_ax, step_range, times)
      traded == RenderTrades(pax, step_range, a.trades)
      date_labels == PySlice([i \in 1..NRows |-> DateLabel(df.Date[i])], step_range)
  IN [title |-> title,
      net_worth_ax |-> nwax,
      price_ax |-> AxSetXTickLabels(traded, date_labels),
      volume_ax |-> vax]

(***************************************************************************)
(* The arguments render is called with.  Every call has                    *)
(* 0 <= current_step <= MaxStep and window_size >= 0; net_worths has       *)
(* current_step+1 entries or more, or is empty.                            *)
(***************************************************************************)
NetWorthKinds == {"steady", "subcent", "zero", "negative"}

NetWorthAt(kind, i) ==
  CASE kind = "steady"   -> IF i = 0 THEN 1000000 ELSE 1090000 + 10000 * i
    [] kind = "subcent"  -> 1004 + 996 * i
    [] kind = "zero"     -> 1000 * i
    [] kind = "negative" -> IF i % 2 = 0 THEN 50000 + 1000 * i ELSE -50000

NetWorths(kind, n) == [k \in 1..n |-> NetWorthAt(kind, k - 1)]

Benchmarks(n) ==
  [i \in 1..n |-> [label |-> <<"benchmark", i>>,
                   values |-> [k \in 1..NRows |-> 1000000 + 1000 * i + 10 * k]]]

TradeSet == [step : 0..MaxStep, type : {"buy", "sell"}]

\* Trades are recorded as they happen: a list of trades is in step order.
TradeLists ==
  {trs \in UNION {[1..n -> TradeSet] : n \in 0..MaxTrades} :
     \A i \in 1..Len(trs) - 1 : trs[i].step <= trs[i + 1].step}

Steps == 0..MaxStep

WindowSizes == 0..MaxWindow

Args(cs, nw, bms, trs, ws) ==
  [current_step |-> cs, net_worths |-> nw, benchmarks |-> bms, trades |-> trs,
   window_size |-> ws]

NetWorthCases ==
  {Args(cs, NetWorths(k, cs + 1 + e), Benchmarks(1), <<>>, ws) :
     cs \in Steps, k \in NetWorthKinds \ {"zero"}, e \in 0..MaxExtra, ws \in WindowSizes}

FailingCases ==
  {Args(cs, NetWorths("zero", cs + 1), Benchmarks(1), <<>>, 1) : cs \in Steps}
  \cup {Args(0, <<>>, Benchmarks(1), <<>>, 1)}

BenchmarkCases ==
  {Args(MaxStep, NetWorths("steady", MaxStep + 1), Benchmarks(n), <<>>, ws) :
     n \in 0..MaxBench, ws \in WindowSizes}

TradeCases ==
  {Args(cs, NetWorths("steady", cs + 1), <<>>, trs, 1) : cs \in Steps, trs \in TradeLists}

RenderInputs == NetWorthCases \cup FailingCases \cup BenchmarkCases \cup TradeCases

SmallInputs ==
  {Args(cs, NetWorths("steady", cs + 1), <<>>, <<>>, 1) : cs \in {0, MaxStep}}

(***************************************************************************)
(* State.                                                                  *)
(*   figs   pyplot's registry of open figures, each named by the renderer  *)
(*          whose constructor created it; the last one is the current      *)
(*          figure.                                                        *)
(*   chart  for every constructed renderer, its title and three panes.     *)
(*   last   the last call made: the operation, the renderer, the           *)
(*          arguments, how it ended ("ok" or the exception raised), the    *)
(*          figures it closed, and whether the price pane held trade       *)
(*          arrows when the call began.                                    *)
(***************************************************************************)
Call(op, r, a, outcome, released, stale) ==
  [op |-> op, r |-> r, args |-> a, outcome |-> outcome, released |-> released,
   stale |-> stale]

NoArgs == Args(0, <<>>, <<>>, <<>>, 0)

Init ==
  /\ figs = <<>>
  /\ chart = <<>>
  /\ last = Call("none", 0, NoArgs, "ok", {}, FALSE)

\* TradingChart(df): plt.figure() registers a new figure and makes it current.
Construct(r) ==
  /\ r \notin DOMAIN chart
  /\ r = Len(chart) + 1
  /\ figs' = Append(figs, r)
  /\ chart' = Append(chart, NewChart)
  /\ last' = Call("init", r, NoArgs, "ok", {}, FALSE)

Render(r, a) ==
  /\ r \in DOMAIN chart
  /\ IF Raised(a.net_worths) # "none"
     THEN /\ chart' = [chart EXCEPT ![r] = ChartAfterRaise(chart[r])]
          /\ last' = Call("render", r, a, Raised(a.net_worths), {},
                          Len(chart[r].price_ax.texts) > 1)
     ELSE /\ chart' = [chart EXCEPT ![r] = RenderChart(chart[r], a)]
          /\ last' = Call("render", r, a, "ok", {}, Len(chart[r].price_ax.texts) > 1)
  /\ UNCHANGED figs

\* plt.close(): closes the current figure, if there is one.
Close(r) ==
  /\ r \in DOMAIN chart
  /\ figs' = IF figs = <<>> THEN figs ELSE SubSeq(figs, 1, Len(figs) - 1)
  /\ last' = Call("close", r, NoArgs, "ok",
                  IF figs = <<>> THEN {} ELSE {figs[Len(figs)]}, FALSE)
  /\ UNCHANGED chart

ConstructMain == Construct(Main)

RenderMain == \E a \in RenderInputs : Render(Main, a)

CloseMain == Close(Main)

Next == ConstructMain \/ RenderMain \/ CloseMain

Spec == Init /\ [][Next]_vars

ConstructAny == \E r \in Renderers : Construct(r)

RenderAny == \E r \in Renderers : \E a \in SmallInputs : Render(r, a)

CloseAny == \E r \in Renderers : Close(r)

NextMulti == ConstructAny \/ RenderAny \/ CloseAny

SpecMulti == Init /\ [][NextMulti]_vars

(***************************************************************************)
(* Properties.  They speak of the last call: its arguments, the chart of   *)
(* the renderer it was made on, and the window of steps the specification  *)
(* of render prescribes.                                                   *)
(***************************************************************************)
Returned == last.op = "render" /\ last.outcome = "ok"

TheChart == chart[last.r]

ClampedStart == IF last.args.current_step - last.args.window_size > 0
                THEN last.args.current_step - last.args.window_size
                ELSE 0

TheWindow == ClampedStart..last.args.current_step

StepOfDate(d) == CHOOSE s \in 0..MaxStep : df.Date[s + 1] = d

IsDate(d) == \E s \in 0..MaxStep : df.Date[s + 1] = d

TradeArrows == SelectSeq(TheChart.price_ax.texts, LAMBDA t : t.arrow # "none")

TradesInWindow == {i \in 1..Len(last.args.trades) : last.args.trades[i].step \in TheWindow}

\* C1: every render with current_step >= 0 and window_size >= 0 draws
\* exactly the steps max(current_step - window_size, 0) .. current_step:
\* window_size+1 steps ending at current_step when current_step >=
\* window_size, and current_step+1 steps starting at step 0 otherwise.
WindowIsExact ==
  Returned =>
    LET cs == last.args.current_step
        ws == last.args.window_size
        xs == TheChart.price_ax.lines[1].x
    IN /\ \A i \in 1..Len(xs) : IsDate(xs[i])
       /\ [i \in 1..Len(xs) |-> StepOfDate(xs[i])]
            = [i \in 1..(cs - ClampedStart + 1) |-> ClampedStart + i - 1]
       /\ cs >= ws => Len(xs) = ws + 1 /\ StepOfDate(xs[Len(xs)]) = cs
       /\ cs < ws => Len(xs) = cs + 1 /\ StepOfDate(xs[1]) = 0
       /\ TheChart.net_worth_ax.lines[1].x = xs
       /\ TheChart.volume_ax.lines[1].x = xs
       /\ Len(TheChart.price_ax.lines[1].y) = Len(xs)

WindowIsExactWitness ==
  /\ Returned
  /\ last.args.current_step >= 1
  /\ last.args.current_step < last.args.window_size
  /\ Len(TheChart.price_ax.lines[1].x) = last.args.current_step + 1

\* C2: a trade whose step is outside the window gets no arrow; every trade
\* whose step is inside it (end steps included) gets exactly one arrow at
\* that step's (date, close), green for a buy and red for a sell.
ArrowsMatchTrades ==
  Returned =>
    /\ Len(TradeArrows) = Cardinality(TradesInWindow)
    /\ \A s \in 0..MaxStep : \A ty \in {"buy", "sell"} :
         Cardinality({i \in 1..Len(TradeArrows) :
                        /\ TradeArrows[i].xy = <<df.Date[s + 1], df.Close[s + 1]>>
                        /\ TradeArrows[i].arrow = (IF ty = "buy" THEN "g" ELSE "r")})
           = IF s \in TheWindow
             THEN Cardinality({i \in 1..Len(last.args.trades) :
                                 last.args.trades[i] = [step |-> s, type |-> ty]})
             ELSE 0

ArrowsMatchTradesWitness ==
  /\ Returned
  /\ Len(last.args.trades) = 2
  /\ last.args.trades[1].step \notin TheWindow
  /\ last.args.trades[2].step = last.args.current_step
  /\ last.args.trades[2].type = "buy"
  /\ Len(TradeArrows) = 1
  /\ TradeArrows[1].arrow = "g"

\* C3: nothing accumulates between render calls: after a render call has
\* returned, the title and the three panes are what that call draws on a
\* freshly constructed renderer; arrows of earlier calls are gone and the
\* lower bound of the price pane is shifted once, from the window's closes.
NothingAccumulates ==
  Returned =>
    LET closes == {df.Close[s + 1] : s \in TheWindow}
        lo == CHOOSE x \in closes : \A y \in closes : x <= y
        hi == CHOOSE x \in closes : \A y \in closes : y <= x
    IN /\ TheChart = RenderChart(NewChart, last.args)
       /\ Len(TheChart.price_ax.texts) = 1 + Cardinality(TradesInWindow)
       /\ Len(TheChart.net_worth_ax.lines) = 1 + Len(last.args.benchmarks)
       /\ Len(TheChart.net_worth_ax.texts) = 1
       /\ Len(TheChart.price_ax.lines) = 1
       /\ Len(TheChart.volume_ax.lines) = 1
       /\ Len(TheChart.volume_ax.fills) = 1
       /\ FracEq(TheChart.price_ax.ylim[1], <<100 * lo - 33 * (hi - lo), 100>>)
       /\ FracEq(TheChart.price_ax.ylim[2], <<hi, 1>>)

NothingAccumulatesWitness ==
  /\ Returned
  /\ last.stale
  /\ Len(TheChart.price_ax.texts) = 1
  /\ last.args.trades = <<>>

\* C4: close() releases the window its own renderer created and no other
\* window, also when several renderers exist.
CloseReleasesOwnWindow ==
  last.op = "close" =>
    /\ last.released \subseteq {last.r}
    /\ \A i \in 1..Len(figs) : figs[i] # last.r

\* C5: for a non-empty net_worths with a non-zero first value, the profit
\* percent in the title is round((net_worths[-1] - net_worths[0]) /
\* net_worths[0] * 100, 2) of the unrounded series values.
ProfitPercentOfSeries ==
  (Returned /\ last.args.net_worths[1] # 0) =>
    LET nw == last.args.net_worths
    IN TheChart.title[4] = RoundDiv((nw[Len(nw)] - nw[1]) * 10000, nw[1])

\* C6: when net_worths is empty or the initial net worth is zero, render
\* raises, and the title and the panes are as they were before the call.
FailsBeforeDrawing ==
  [][(/\ last'.op = "render"
      /\ \/ Len(last'.args.net_worths) = 0
         \/ last'.args.net_worths[1] = 0)
     => (/\ last'.outcome \in {"IndexError", "ZeroDivisionError"}
         /\ chart' = chart)]_vars

FailsBeforeDrawingWitness ==
  /\ last.op = "render"
  /\ last.outcome = "ZeroDivisionError"
  /\ last.args.net_worths[1] = 0
  /\ TheChart.title # <<>>
  /\ Len(TheChart.price_ax.lines) = 1

\* C7: the benchmark at 0-based position i is drawn once, in the colour at
\* index i mod 9 of the palette orange, cyan, purple, blue, magenta, yellow,
\* black, red, green; the 10th benchmark has the colour of the 1st.
BenchmarkPalette ==
  Returned =>
    LET palette == <<"orange", "cyan", "purple", "blue", "magenta", "yellow",
                     "black", "red", "green">>
        drawn == TheChart.net_worth_ax.lines
        bms == last.args.benchmarks
    IN /\ Len(drawn) = 1 + Len(bms)
       /\ \A i \in 0..Len(bms) - 1 :
            /\ drawn[i + 2].label = bms[i + 1].label
            /\ drawn[i + 2].color = palette[(i % 9) + 1]
            /\ i >= 9 => drawn[i + 2].color = drawn[i - 9 + 2].color
            /\ Cardinality({j \in 1..Len(drawn) : drawn[j].label = bms[i + 1].label}) = 1

BenchmarkPaletteWitness ==
  /\ Returned
  /\ Len(last.args.benchmarks) >= 10
  /\ TheChart.net_worth_ax.lines[11].color = "orange"
  /\ TheChart.net_worth_ax.lines[10].color = "green"

\* C8: after a render the volume pane's y-axis is [0, m / 0.33], m being
\* the largest volume among the steps of the window, so m is 0.33 of the
\* axis height.
VolumeAxis ==
  Returned =>
    LET vols == {df.Volume[s + 1] : s \in TheWindow}
        m == CHOOSE x \in vols : \A y \in vols : y <= x
        ylim == TheChart.volume_ax.ylim
    IN /\ FracEq(ylim[1], <<0, 1>>)
       /\ FracEq(ylim[2], <<100 * m, 33>>)
       /\ FracEq(<<m, 1>>, FracMul(<<33, 100>>, FracSub(ylim[2], ylim[1])))

VolumeAxisWitness ==
  /\ Returned
  /\ \E s \in 0..MaxStep : \A w \in TheWindow : df.Volume[s + 1] > df.Volume[w + 1]
  /\ Cardinality(TheWindow) >= 2
  /\ TheChart.volume_ax.ylim[2][1] > 0

\* C9: after a render the net-worth pane's y-axis is [min(net_worths)/1.25,
\* max(net_worths)*1.25] over the whole series, and every net worth plotted
\* in the window lies within it.
NetWorthHeadroom ==
  Returned =>
    LET nw == last.args.net_worths
        all == {nw[i] : i \in 1..Len(nw)}
        lo == CHOOSE x \in all : \A y \in all : x <= y
        hi == CHOOSE x \in all : \A y \in all : y <= x
        ylim == TheChart.net_worth_ax.ylim
        plotted == TheChart.net_worth_ax.lines[1].y
    IN /\ FracEq(ylim[1], <<4 * lo, 5>>)
       /\ FracEq(ylim[2], <<5 * hi, 4>>)
       /\ \A i \in 1..Len(plotted) :
            FracLeq(ylim[1], <<plotted[i], 1>>) /\ FracLeq(<<plotted[i], 1>>, ylim[2])

\* C10: when net_worths has current_step+1 entries or more, the net worth
\* in the title is that of net_worths[current_step], the value annotated in
\* the net-worth pane.
TitleShowsCurrent ==
  (Returned /\ Len(last.args.net_worths) >= last.args.current_step + 1) =>
    /\ TheChart.title[2] = Round2(last.args.net_worths[last.args.current_step + 1])
    /\ TheChart.title[2] = 10 * TheChart.net_worth_ax.texts[1].text[2]
    /\ TheChart.net_worth_ax.texts[1].xy[2] = last.args.net_worths[last.args.current_step + 1]

====
